---- MODULE Spec2Model ----
(***************************************************************************)
(* A model of scripts/csvdeduplicator.py: the column selector              *)
(* (parse_columns_options) and the deduplication run of main().            *)
(*                                                                         *)
(* A text is a sequence of one-character strings, so that str.split('-')   *)
(* and int() are computed as the code computes them.  A row is a sequence  *)
(* of field values (csv.reader has already decoded the file).  An optional *)
(* argument is a record [some, val]; some = FALSE is Python's None.        *)
(* The header-listing mode (-q, list_headers) and the existence test of    *)
(* the input file are not part of the model.                               *)
(***************************************************************************)
EXTENDS Integers, Sequences, FiniteSets, TLC

\* ------------------------------------------------------------------ bounds

\* Rows of the input file, and fields of one row.
MaxRows == 2
MaxFields == 2
\* Characters of the -r text and largest -c value under SpecResolve, and the
\* widest header there.
MaxOptLen == 3
MaxCount == 3
MaxWidth == 3

\* Field values: the empty text and one other.
Values == {"", "a"}
\* Characters of a -r text: digits, the separator, and one character int() refuses.
Chars == {"1", "2", "3", "-", "x"}

VARIABLES
  csvfile,        \* the rows of the input file
  args_r,         \* args.r: [some, val], val a text
  args_c,         \* args.c: [some, val], val an integer
  pc,             \* the position of main()
  exit_msg,       \* the message of sys.exit, "IOError" for an I/O exception, "" for none
  rows,           \* list(reader)
  total_columns,  \* len(rows[0])
  cols_to_use,    \* the resolved 1-indexed columns
  col_indices,    \* the same, 0-indexed
  seen_keys,      \* key -> first field of the first row with that key
  deduped_rows,   \* the kept rows
  idx,            \* rows the for loop has processed
  dup_file,       \* 'deduplicate_list': [state, content], content the pairs written
  out_file        \* '<base>_deduped<ext>': [state, content], content the rows written

vars == <<csvfile, args_r, args_c, pc, exit_msg, rows, total_columns, cols_to_use,
          col_indices, seen_keys, deduped_rows, idx, dup_file, out_file>>

\* ------------------------------------------------------- optional arguments

None_r == [some |-> FALSE, val |-> <<>>]
None_c == [some |-> FALSE, val |-> 0]
Some(v) == [some |-> TRUE, val |-> v]

\* Python's truth value of args.r: None and the empty text are both false.
Truthy(r_option) == r_option.some /\ r_option.val # <<>>

\* ---------------------------------------------------------- text functions

\* str.split('-'): the pieces between separators, empty pieces kept.
RECURSIVE split(_)
split(s) ==
  IF \A i \in 1..Len(s) : s[i] # "-"
  THEN <<s>>
  ELSE LET p == CHOOSE i \in 1..Len(s) : s[i] = "-" /\ \A j \in 1..(i - 1) : s[j] # "-"
       IN <<SubSeq(s, 1, p - 1)>> \o split(SubSeq(s, p + 1, Len(s)))

Digits == {"0", "1", "2", "3", "4", "5", "6", "7", "8", "9"}

DigitValue(ch) ==
  CASE ch = "0" -> 0 [] ch = "1" -> 1 [] ch = "2" -> 2 [] ch = "3" -> 3 [] ch = "4" -> 4
    [] ch = "5" -> 5 [] ch = "6" -> 6 [] ch = "7" -> 7 [] ch = "8" -> 8 [] ch = "9" -> 9

\* Whether int(tok) returns rather than raising ValueError, for a text over
\* Digits, "-" and letters.
IsInt(tok) == Len(tok) > 0 /\ \A i \in 1..Len(tok) : tok[i] \in Digits

\* int(tok) for a text of digits: its decimal value.
RECURSIVE int(_)
int(tok) ==
  IF Len(tok) = 0 THEN 0
  ELSE 10 * int(SubSeq(tok, 1, Len(tok) - 1)) + DigitValue(tok[Len(tok)])

\* list(range(a, b)).
range(a, b) == [k \in 1..(IF b > a THEN b - a ELSE 0) |-> a + k - 1]

\* ------------------------------------------------------ the column selector

InvalidInt ==
  "Error: Invalid column number detected in -r option. Please ensure all parts are integers."
NoValidColumns ==
  "Error: No valid columns specified for duplicate checking based on the CSV size."
EmptyFile == "Error: The CSV file is empty."

\* Mutant: every part is handed to int(), also when -c is given.
ParsedParts_All(parts, c_option) == parts

\* The parts the try block hands to int(): the first alone when -c is given.
ParsedParts(parts, c_option) == IF c_option.some THEN <<parts[1]>> ELSE parts

\* Mutant: with both -r and -c the run starts at column 1, not at the -r value.
RawColumns_StartIgnored(r_option, c_option, total) ==
  IF Truthy(r_option) /\ ~c_option.some
  THEN LET parts == split(r_option.val)
       IN [i \in 1..Len(parts) |-> int(parts[i])]
  ELSE IF c_option.some
       THEN range(1, 1 + c_option.val)
       ELSE range(1, total + 1)

\* The columns before the range filter.
RawColumns(r_option, c_option, total) ==
  IF Truthy(r_option)
  THEN LET parts == split(r_option.val)
       IN IF c_option.some
          THEN range(int(parts[1]), int(parts[1]) + c_option.val)
          ELSE [i \in 1..Len(parts) |-> int(parts[i])]
  ELSE IF c_option.some
       THEN range(1, 1 + c_option.val)
       ELSE range(1, total + 1)

\* Mutant: the filter lets the column after the last one through.
ValidColumns_OffByOne(columns, total) ==
  SelectSeq(columns, LAMBDA col : 1 <= col /\ col <= total + 1)

\* [col for col in columns if 1 <= col <= total_columns]
ValidColumns(columns, total) ==
  SelectSeq(columns, LAMBDA col : 1 <= col /\ col <= total)

\* parse_columns_options: [exit, cols]; exit is the message of sys.exit, or "".
parse_columns_options(r_option, c_option, total) ==
  IF /\ Truthy(r_option)
     /\ LET parsed == ParsedParts(split(r_option.val), c_option)
        IN \E i \in 1..Len(parsed) : ~IsInt(parsed[i])
  THEN [exit |-> InvalidInt, cols |-> <<>>]
  ELSE LET valid_columns == ValidColumns(RawColumns(r_option, c_option, total), total)
       IN IF valid_columns = <<>>
          THEN [exit |-> NoValidColumns, cols |-> <<>>]
          ELSE [exit |-> "", cols |-> valid_columns]

\* ------------------------------------------------------------ deduplication

\* row[0] if len(row) > 0 else ""
identity(row) == IF Len(row) > 0 THEN row[1] ELSE ""

\* Mutant: the last field of a row is taken for missing.
field_LastMissing(row, i) == IF i + 1 < Len(row) THEN row[i + 1] ELSE ""

\* row[i] if i < len(row) else "", i 0-indexed.
field(row, i) == IF i < Len(row) THEN row[i + 1] ELSE ""

\* tuple(row[i] if i < len(row) else "" for i in col_indices)
Key(row, indices) == [k \in 1..Len(indices) |-> field(row, indices[k])]

\* [col - 1 for col in cols_to_use]
ZeroIndexed(cols) == [k \in 1..Len(cols) |-> cols[k] - 1]

NoKeys == [k \in {} |-> ""]

\* seen_keys[key] = value
Put(seen, key, value) ==
  [k \in DOMAIN seen \cup {key} |-> IF k = key THEN value ELSE seen[k]]

\* Mutant: a repeat is dropped without a pair being written.
DedupStep_DropSilently(st, row, indices) ==
  LET key == [k \in 1..Len(indices) |-> field(row, indices[k])]
  IN IF key \in DOMAIN st.seen
     THEN st
     ELSE [st EXCEPT !.seen = Put(@, key, identity(row)),
                     !.deduped = Append(@, row)]

\* Mutant: a kept row is put in front of the kept rows.
DedupStep_Prepend(st, row, indices) ==
  LET key == [k \in 1..Len(indices) |-> field(row, indices[k])]
  IN IF key \in DOMAIN st.seen
     THEN [st EXCEPT !.pairs = Append(@, <<st.seen[key], identity(row)>>)]
     ELSE [st EXCEPT !.seen = Put(@, key, identity(row)),
                     !.deduped = <<row>> \o @]

\* Mutant: a repeat overwrites the table's entry with its own first field.
DedupStep_Overwrite(st, row, indices) ==
  LET key == [k \in 1..Len(indices) |-> field(row, indices[k])]
  IN IF key \in DOMAIN st.seen
     THEN [st EXCEPT !.pairs = Append(@, <<st.seen[key], identity(row)>>),
                     !.seen = Put(@, key, identity(row))]
     ELSE [st EXCEPT !.seen = Put(@, key, identity(row)),
                     !.deduped = Append(@, row)]

\* Mutant: the row is appended outside the else branch, so a repeat is kept too.
DedupStep_AppendAlways(st, row, indices) ==
  LET key == [k \in 1..Len(indices) |-> field(row, indices[k])]
  IN IF key \in DOMAIN st.seen
     THEN [st EXCEPT !.pairs = Append(@, <<st.seen[key], identity(row)>>),
                     !.deduped = Append(@, row)]
     ELSE [st EXCEPT !.seen = Put(@, key, identity(row)),
                     !.deduped = Append(@, row)]

\* One iteration of the for loop on st = [seen, deduped, pairs].
DedupStep(st, row, indices) ==
  LET key == Key(row, indices)
  IN IF key \in DOMAIN st.seen
     THEN [st EXCEPT !.pairs = Append(@, <<st.seen[key], identity(row)>>)]
     ELSE [st EXCEPT !.seen = Put(@, key, identity(row)),
                     !.deduped = Append(@, row)]

\* The whole loop over rs, from an empty table.
RECURSIVE DedupFrom(_, _, _)
DedupFrom(st, rs, indices) ==
  IF rs = <<>> THEN st
  ELSE DedupFrom(DedupStep(st, Head(rs), indices), Tail(rs), indices)

Deduplicate(rs, indices) ==
  DedupFrom([seen |-> NoKeys, deduped |-> <<>>, pairs |-> <<>>], rs, indices)

\* ------------------------------------------------------------------- inputs

Rows == UNION {[1..w -> Values] : w \in 0..MaxFields}
RowSeqs == UNION {[1..n -> Rows] : n \in 0..MaxRows}
Texts == UNION {[1..n -> Chars] : n \in 0..MaxOptLen}

\* The <<-r, -c>> values of a deduplication run: every column, one column other
\* than the first, a list out of order, a start with a count, a count alone, and a
\* text int() refuses.
MainOptions ==
  {<<None_r, None_c>>,
   <<Some(<<"2">>), None_c>>,
   <<Some(<<"2", "-", "1">>), None_c>>,
   <<Some(<<"1">>), Some(2)>>,
   <<None_r, Some(1)>>,
   <<Some(<<"x">>), None_c>>}

Untouched == [state |-> "untouched", content |-> <<>>]

InitLocals ==
  /\ exit_msg = ""
  /\ rows = <<>>
  /\ total_columns = 0
  /\ cols_to_use = <<>>
  /\ col_indices = <<>>
  /\ seen_keys = NoKeys
  /\ deduped_rows = <<>>
  /\ idx = 0
  /\ dup_file = Untouched
  /\ out_file = Untouched

Init ==
  /\ csvfile \in RowSeqs
  /\ \E o \in MainOptions : args_r = o[1] /\ args_c = o[2]
  /\ pc = "read"
  /\ InitLocals

\* ------------------------------------------------------------------ actions

\* Mutant: the log is opened for writing before the input is read and checked.
ReadRows_OpenLogFirst ==
  /\ pc = "read"
  /\ rows' = csvfile
  /\ dup_file' = [state |-> "open", content |-> <<>>]
  /\ IF csvfile = <<>>
     THEN /\ pc' = "exit"
          /\ exit_msg' = EmptyFile
          /\ UNCHANGED total_columns
     ELSE /\ pc' = "parse_columns"
          /\ total_columns' = Len(csvfile[1])
          /\ UNCHANGED exit_msg
  /\ UNCHANGED <<csvfile, args_r, args_c, cols_to_use, col_indices, seen_keys,
                 deduped_rows, idx, out_file>>

\* rows = list(reader); the empty-file exit; total_columns = len(rows[0]).
ReadRows ==
  /\ pc = "read"
  /\ rows' = csvfile
  /\ IF csvfile = <<>>
     THEN /\ pc' = "exit"
          /\ exit_msg' = EmptyFile
          /\ UNCHANGED total_columns
     ELSE /\ pc' = "parse_columns"
          /\ total_columns' = Len(csvfile[1])
          /\ UNCHANGED exit_msg
  /\ UNCHANGED <<csvfile, args_r, args_c, cols_to_use, col_indices, seen_keys,
                 deduped_rows, idx, dup_file, out_file>>

\* cols_to_use = parse_columns_options(...); col_indices; seen_keys = {};
\* deduped_rows = [].
ParseColumns ==
  /\ pc = "parse_columns"
  /\ LET res == parse_columns_options(args_r, args_c, total_columns)
     IN IF res.exit # ""
        THEN /\ pc' = "exit"
             /\ exit_msg' = res.exit
             /\ UNCHANGED <<cols_to_use, col_indices>>
        ELSE /\ pc' = "open_dup"
             /\ cols_to_use' = res.cols
             /\ col_indices' = ZeroIndexed(res.cols)
             /\ UNCHANGED exit_msg
  /\ seen_keys' = NoKeys
  /\ deduped_rows' = <<>>
  /\ UNCHANGED <<csvfile, args_r, args_c, rows, total_columns, idx, dup_file, out_file>>

\* open("deduplicate_list", "w"): the log is created or truncated.
OpenDup ==
  /\ pc = "open_dup"
  /\ dup_file' = [state |-> "open", content |-> <<>>]
  /\ pc' = "loop"
  /\ UNCHANGED <<csvfile, args_r, args_c, exit_msg, rows, total_columns, cols_to_use,
                 col_indices, seen_keys, deduped_rows, idx, out_file>>

\* One iteration of "for row in rows".
ProcessRow ==
  /\ pc = "loop"
  /\ idx < Len(rows)
  /\ LET st == DedupStep([seen |-> seen_keys, deduped |-> deduped_rows,
                          pairs |-> dup_file.content], rows[idx + 1], col_indices)
     IN /\ seen_keys' = st.seen
        /\ deduped_rows' = st.deduped
        /\ dup_file' = [dup_file EXCEPT !.content = st.pairs]
  /\ idx' = idx + 1
  /\ UNCHANGED <<csvfile, args_r, args_c, pc, exit_msg, rows, total_columns,
                 cols_to_use, col_indices, out_file>>

\* The loop ends and the with block closes the log.
CloseDup ==
  /\ pc = "loop"
  /\ idx = Len(rows)
  /\ dup_file' = [dup_file EXCEPT !.state = "closed"]
  /\ pc' = "write_out"
  /\ UNCHANGED <<csvfile, args_r, args_c, exit_msg, rows, total_columns, cols_to_use,
                 col_indices, seen_keys, deduped_rows, idx, out_file>>

\* open(output_file, "w"); writer.writerows(deduped_rows).
WriteOutput ==
  /\ pc = "write_out"
  /\ out_file' = [state |-> "closed", content |-> deduped_rows]
  /\ pc' = "done"
  /\ UNCHANGED <<csvfile, args_r, args_c, exit_msg, rows, total_columns, cols_to_use,
                 col_indices, seen_keys, deduped_rows, idx, dup_file>>

\* An I/O exception where the code does I/O: reading the input, opening the log,
\* writing a pair, opening the output.  The with block closes an open log.
IOFailure ==
  /\ \/ pc \in {"read", "open_dup", "write_out"}
     \/ /\ pc = "loop"
        /\ idx < Len(rows)
        /\ Key(rows[idx + 1], col_indices) \in DOMAIN seen_keys
  /\ pc' = "exit"
  /\ exit_msg' = "IOError"
  /\ dup_file' = IF dup_file.state = "open"
                 THEN [dup_file EXCEPT !.state = "closed"]
                 ELSE dup_file
  /\ UNCHANGED <<csvfile, args_r, args_c, rows, total_columns, cols_to_use,
                 col_indices, seen_keys, deduped_rows, idx, out_file>>

Next ==
  \/ ReadRows
  \/ ParseColumns
  \/ OpenDup
  \/ ProcessRow
  \/ CloseDup
  \/ WriteOutput
  \/ IOFailure

Spec == Init /\ [][Next]_vars

\* The column selector alone: main() has read a header of each width and is
\* about to resolve each -r text and -c value.
InitResolve ==
  /\ \E w \in 0..MaxWidth : csvfile = <<[i \in 1..w |-> "a"]>>
  /\ args_r \in {None_r} \cup {Some(t) : t \in Texts}
  /\ args_c \in {None_c} \cup {Some(n) : n \in (-1)..MaxCount}
  /\ pc = "read"
  /\ InitLocals

NextResolve ==
  \/ ReadRows
  \/ ParseColumns

SpecResolve == InitResolve /\ [][NextResolve]_vars

\* ------------------------------------------------------------------- claims

\* The key of input row i under the resolved columns.
KeyOf(i) == Key(rows[i], col_indices)

\* Row i is the earliest input row with its key.
FirstOccurrence(i) == \A j \in 1..(i - 1) : KeyOf(j) # KeyOf(i)

\* The earliest input row with the key of row i.
Earliest(i) == CHOOSE j \in 1..i : KeyOf(j) = KeyOf(i) /\ FirstOccurrence(j)

\* The first field of a row, the empty text for a row without fields.
FirstField(row) == IF row = <<>> THEN "" ELSE Head(row)

\* The first occurrences among rows 1..n, in input order.
RECURSIVE KeptUpTo(_)
KeptUpTo(n) ==
  IF n = 0 THEN <<>>
  ELSE IF FirstOccurrence(n) THEN Append(KeptUpTo(n - 1), rows[n]) ELSE KeptUpTo(n - 1)

\* One pair per repeat among rows 1..n, in input order.
RECURSIVE PairsUpTo(_)
PairsUpTo(n) ==
  IF n = 0 THEN <<>>
  ELSE IF FirstOccurrence(n)
       THEN PairsUpTo(n - 1)
       ELSE Append(PairsUpTo(n - 1), <<FirstField(rows[Earliest(n)]), FirstField(rows[n])>>)

\* C1: after each row of the pass, kept rows plus emitted pairs equal the rows
\* processed so far; once the pass is over they equal the number of input rows.
C1_KeptPlusPairsIsProcessed ==
  /\ Len(deduped_rows) + Len(dup_file.content) = idx
  /\ pc \in {"write_out", "done"} => Len(deduped_rows) + Len(dup_file.content) = Len(rows)

C1_Witness ==
  /\ pc = "done"
  /\ Len(rows) >= 2
  /\ Len(dup_file.content) >= 1
  /\ Len(deduped_rows) >= 1

\* C2: the kept rows are exactly the input rows whose key no earlier row has,
\* unchanged and in input order; no two kept rows share a key, every key seen so
\* far is the key of a kept row, the header is kept first, and the output file
\* holds the kept rows.
C2_KeptAreFirstOccurrences ==
  /\ deduped_rows = KeptUpTo(idx)
  /\ \A i, j \in 1..Len(deduped_rows) :
        i # j => Key(deduped_rows[i], col_indices) # Key(deduped_rows[j], col_indices)
  /\ \A i \in 1..idx :
        \E k \in 1..Len(deduped_rows) : Key(deduped_rows[k], col_indices) = KeyOf(i)
  /\ idx >= 1 => deduped_rows[1] = rows[1]
  /\ pc = "done" => out_file.content = KeptUpTo(Len(rows))

C2_Witness ==
  /\ pc = "done"
  /\ Len(rows) >= 2
  /\ ~FirstOccurrence(2)
  /\ rows[2] # rows[1]
  /\ out_file.content = <<rows[1]>> \o SubSeq(deduped_rows, 2, Len(deduped_rows))

C4_Idempotent ==
  LET again == Deduplicate(deduped_rows, col_indices)
  IN again.deduped = deduped_rows /\ again.pairs = <<>>

C4_Witness ==
  /\ pc = "done"
  /\ Len(deduped_rows) >= 1
  /\ Len(dup_file.content) >= 1
  /\ Deduplicate(rows, col_indices).pairs # <<>>

\* -------------------------------------------- claims on the column selector

\* parse_columns_options has returned, or has left through sys.exit.
Returned == pc = "open_dup"
Failed == pc = "exit" /\ exit_msg \in {InvalidInt, NoValidColumns}
Resolved == Returned \/ Failed

\* The raw tokens of a -r text that is given; -r "" counts as not given.
Given_r == args_r.some /\ args_r.val # <<>>
Given_c == args_c.some
Tokens == split(args_r.val)

\* The consecutive run [a, a + n - 1].
Run(a, n) == [k \in 1..(IF n > 0 THEN n ELSE 0) |-> a + (k - 1)]

\* The candidate list of the resolution policy, by its precedence.
Candidates ==
  IF Given_r /\ Given_c THEN Run(int(Tokens[1]), args_c.val)
  ELSE IF Given_r THEN [i \in 1..Len(Tokens) |-> int(Tokens[i])]
  ELSE IF Given_c THEN Run(1, args_c.val)
  ELSE Run(1, total_columns)

\* The elements of list within [1, width], order and multiplicity kept.
RECURSIVE Within(_, _)
Within(list, width) ==
  IF list = <<>> THEN <<>>
  ELSE IF 1 <= Head(list) /\ Head(list) <= width
       THEN <<Head(list)>> \o Within(Tail(list), width)
       ELSE Within(Tail(list), width)

InRange(list, width) == \A k \in 1..Len(list) : 1 <= list[k] /\ list[k] <= width

\* A startOrList of positive integers (or none), a count >= 1 (or none), a
\* table width >= 1.
WellFormed ==
  /\ args_r.some => /\ args_r.val # <<>>
                    /\ \A i \in 1..Len(Tokens) : IsInt(Tokens[i]) /\ int(Tokens[i]) >= 1
  /\ args_c.some => args_c.val >= 1
  /\ total_columns >= 1

\* C5 as stated: on every well-formed combination Resolve returns a non-empty
\* list within [1, tableWidth].
C5_AlwaysReturns ==
  (Resolved /\ WellFormed) => (Returned /\ cols_to_use # <<>> /\ InRange(cols_to_use, total_columns))

\* C5 amended: on every well-formed combination Resolve either returns a
\* non-empty list within [1, tableWidth], or fails with InvalidColumnSpec, and it
\* fails only when no candidate column lies within [1, tableWidth].
C5_ReturnsInRangeOrFails ==
  (Resolved /\ WellFormed) =>
     \/ Returned /\ cols_to_use # <<>> /\ InRange(cols_to_use, total_columns)
     \/ Failed /\ exit_msg = NoValidColumns /\ Within(Candidates, total_columns) = <<>>

C5_Witness ==
  /\ WellFormed
  /\ Returned
  /\ Given_r /\ ~Given_c
  /\ Len(cols_to_use) >= 1
  /\ Len(cols_to_use) < Len(Tokens)

\* C6: the candidates follow the precedence (both: the run from the first element
\* of startOrList, the later elements ignored; startOrList alone: the literal
\* list; count alone: [1, count]; neither: [1, tableWidth]); Resolve returns the
\* candidates within [1, tableWidth] in order and with multiplicity, and fails
\* exactly when none is.
C6_PrecedenceAndFilter ==
  (/\ Resolved
   /\ Given_r => IsInt(Tokens[1])
   /\ (Given_r /\ ~Given_c) => \A i \in 1..Len(Tokens) : IsInt(Tokens[i]))
  => IF Within(Candidates, total_columns) = <<>>
     THEN Failed /\ exit_msg = NoValidColumns
     ELSE Returned /\ cols_to_use = Within(Candidates, total_columns)

C6_Witness ==
  /\ Returned
  /\ Given_r /\ Given_c
  /\ Len(Tokens) >= 2
  /\ int(Tokens[1]) >= 2
  /\ Len(cols_to_use) >= 2
  /\ Len(cols_to_use) < args_c.val

\* C7 as stated: Resolve fails whenever any raw token of startOrList is not an
\* integer, at any position, with or without count.
C7_AnyBadTokenFails ==
  (Resolved /\ Given_r /\ \E i \in 1..Len(Tokens) : ~IsInt(Tokens[i])) => Failed

\* C7 amended: Resolve fails on a token that is not an integer exactly for the
\* tokens it parses: any token when count is not given, the first token when
\* count is given; with count given a later token that is not an integer is
\* ignored and does not by itself make Resolve fail.
C7_ParsedBadTokenFails ==
  Resolved =>
    ((Failed /\ exit_msg = InvalidInt) <=>
       /\ Given_r
       /\ IF Given_c THEN ~IsInt(Tokens[1]) ELSE \E i \in 1..Len(Tokens) : ~IsInt(Tokens[i]))

C7_Witness ==
  /\ Returned
  /\ Given_r /\ Given_c
  /\ \E i \in 2..Len(Tokens) : ~IsInt(Tokens[i])
  /\ cols_to_use = <<int(Tokens[1])>>

\* ------------------------------------------------ claims on the run's outputs

\* C8: a run that ends with the empty-input error or with an invalid column
\* specification has processed no row and has created, truncated or written
\* neither output file.
C8_NoOutputOnFatalInput ==
  exit_msg \in {EmptyFile, InvalidInt, NoValidColumns} =>
    /\ pc = "exit"
    /\ idx = 0
    /\ deduped_rows = <<>>
    /\ dup_file = Untouched
    /\ out_file = Untouched

C8_Witness ==
  /\ pc = "exit"
  /\ exit_msg = NoValidColumns
  /\ Len(rows) >= 2
  /\ rows[2] = rows[1]

\* C9 as stated: the duplicate log has been written only once the pass is
\* complete and the deduplicated file has been written.
C9_OutputsOnlyAfterPass ==
  dup_file.content # <<>> => (idx = Len(rows) /\ out_file.state # "untouched")

\* C10: the key has one component per resolved column, in column order, the
\* row's field at that 1-indexed position or the empty text when the row is
\* shorter; rows equal on those padded positions have equal keys, and the kept
\* rows are those that no earlier row equals on them.
PadField(row, col) == IF col \in 1..Len(row) THEN row[col] ELSE ""
Padded(i) == [k \in 1..Len(cols_to_use) |-> PadField(rows[i], cols_to_use[k])]

RECURSIVE KeptByPadded(_)
KeptByPadded(n) ==
  IF n = 0 THEN <<>>
  ELSE IF \E j \in 1..(n - 1) : Padded(j) = Padded(n)
       THEN KeptByPadded(n - 1)
       ELSE Append(KeptByPadded(n - 1), rows[n])

C10_KeyPadsShortRows ==
  /\ \A i \in 1..Len(rows) :
        /\ Len(KeyOf(i)) = Len(cols_to_use)
        /\ KeyOf(i) = Padded(i)
  /\ deduped_rows = KeptByPadded(idx)

C10_Witness ==
  /\ pc = "done"
  /\ \E i, j \in 1..Len(rows) :
        /\ i < j
        /\ Len(rows[j]) < Len(rows[i])
        /\ rows[j] = <<>>
        /\ \E k \in 1..Len(cols_to_use) : cols_to_use[k] > Len(rows[j])
        /\ KeyOf(i) = KeyOf(j)
        /\ Len(deduped_rows) = Len(rows) - 1
        /\ Len(dup_file.content) = 1

====
